---- MODULE Spec2Model ----
(***************************************************************************)
(* Model of sync_instagram.py: one sequential pipeline that resolves a     *)
(* profile, extracts up to MAX_POSTS posts, downloads the images that are  *)
(* not cached, removes the stale images and rewrites the JSON manifest.    *)
(* The file system (image directory, manifest file) persists between runs; *)
(* the network answers and the I/O errors are chosen by the environment.   *)
(***************************************************************************)
EXTENDS Integers, Sequences, FiniteSets, TLC

\* ------------------------------------------------------------ constants
MAX_POSTS == 9
MAX_RETRIES == 3
RETRY_DELAY == 5

\* ------------------------------------------------------------ bounds
\* Number of consecutive runs of the script in one behaviour.
MaxRuns == 2
\* Posts of the remote profile that are not in the cache when the first run starts.
MaxNew == 2
\* Cached images of the first run's directory that the remote profile does not name.
MaxStale == 2

VARIABLES
    remote,       \* the remote profile: embedded edges and feed items
    cache,        \* file names in IMG_DIR
    manifest,     \* content of JSON_FILE
    pc,           \* position of the script
    run,          \* number of the current run
    session_id,   \* local of sync_instagram
    user_id,      \* local of sync_instagram (0 = None)
    user_data,    \* local of sync_instagram: the edges of the profile answer
    attempt,      \* loop variable of the retry loop being executed
    posts,        \* local of sync_instagram
    api_posts,    \* local of sync_instagram: what get_posts_via_api returned
    i,            \* index of the post being processed (1-based)
    posts_data,   \* local of sync_instagram
    shortcodes,   \* local of sync_instagram
    stale,        \* cleanup_old_images: listed files still to be removed
    exitCode,     \* exit status of the process (-1 while running)
    exitReason,   \* why the process ended
    slept,        \* time.sleep calls of the retry loop being executed
    cache0,       \* history: cache when the run started
    manifest0,    \* history: manifest when the run started
    reqs,         \* history: requests issued by the retry loop last entered
    outcome,      \* history: per processed post, "cached", "downloaded" or "skipped"
    prev          \* history: summary of the previous run

vars == <<remote, cache, manifest, pc, run, session_id, user_id, user_data,
          attempt, posts, api_posts, i, posts_data, shortcodes, stale, exitCode,
          exitReason, slept, cache0, manifest0, reqs,
          outcome, prev>>

\* ------------------------------------------------------------ data
\* A shortcode or a URL is a natural number; 0 stands for the empty string.
Node(sc, url) == [shortcode |-> sc, display_url |-> url]
Item(code, cands) == [code |-> code, candidates |-> cands]
NodesUpTo(n) == [k \in 1..n |-> Node(k, k)]
ItemsUpTo(n) == [k \in 1..n |-> Item(k, <<k>>)]

Take(s, n) == SubSeq(s, 1, IF Len(s) < n THEN Len(s) ELSE n)
Elems(s) == {s[k] : k \in 1..Len(s)}

Permalink(shortcode) == <<"https://www.instagram.com/p/", shortcode, "/">>
MediaUrl(shortcode) == <<"./data/ig_images/", shortcode, ".jpg">>
FileName(shortcode) == <<shortcode, ".jpg">>
EndsWithJpg(filename) == filename[Len(filename)] = ".jpg"

Post(sc, url) == [shortcode |-> sc, display_url |-> url, permalink |-> Permalink(sc)]
ManifestEntry(post) ==
    [permalink |-> post.permalink, media_url |-> MediaUrl(post.shortcode)]

\* The value of INSTAGRAM_SESSION_ID: a string over two characters; the unset
\* variable reads as the default "".
Unset == <<"unset">>
EnvValues == {Unset, <<>>, <<" ">>, <<"x">>, <<" ", "x", " ">>}
EnvGet(env) == IF env = Unset THEN <<>> ELSE env

RECURSIVE LStrip(_)
LStrip(s) == IF s # <<>> /\ Head(s) = " " THEN LStrip(Tail(s)) ELSE s
RECURSIVE RStrip(_)
RStrip(s) ==
    IF s # <<>> /\ s[Len(s)] = " " THEN RStrip(SubSeq(s, 1, Len(s) - 1)) ELSE s
Strip(s) == RStrip(LStrip(s))

\* ------------------------------------------------------------ manifest file
\* A text of the form  [ e1, ..., ek ]  cut anywhere between its tokens.
NoFile == [exists |-> FALSE, open |-> FALSE, entries |-> <<>>, closed |-> FALSE]
JsonPrefix(data, k) ==
    [exists  |-> TRUE,
     open    |-> k >= 1,
     entries |-> IF k <= 1 THEN <<>> ELSE Take(data, k - 1),
     closed  |-> k = Len(data) + 2]
JsonDump(data) == JsonPrefix(data, Len(data) + 2)
Truncated == JsonPrefix(<<>>, 0)
\* What a reader of the file can parse.
WellFormed(file) == file.exists /\ file.open /\ file.closed
Partial(file) == file.exists /\ ~WellFormed(file)

\* ------------------------------------------------------------ extraction
RECURSIVE ValidNodes(_)
ValidNodes(edges) ==
    IF edges = <<>> THEN <<>>
    ELSE LET node == Head(edges)
             shortcode == node.shortcode
             display_url == node.display_url
         IN (IF shortcode # 0 /\ display_url # 0
                THEN <<Post(shortcode, display_url)>> ELSE <<>>)
            \o ValidNodes(Tail(edges))

get_posts_from_profile(edges) == ValidNodes(Take(edges, MAX_POSTS))

RECURSIVE ValidItems(_)
ValidItems(items) ==
    IF items = <<>> THEN <<>>
    ELSE LET item == Head(items)
             shortcode == item.code
             display_url == IF item.candidates # <<>> THEN item.candidates[1] ELSE 0
         IN (IF shortcode # 0 /\ display_url # 0
                THEN <<Post(shortcode, display_url)>> ELSE <<>>)
            \o ValidItems(Tail(items))

ParseFeed(items) == ValidItems(Take(items, MAX_POSTS))

\* ------------------------------------------------------------ conditions
\* A plausible slip: the run goes on without a credential (anonymous mode).
MissingCredential_Ignored(sid) == FALSE
\* line 207: `if not session_id`
MissingCredential(sid) == sid = <<>>
\* A plausible slip: a loop that retries until it succeeds.
LastAttempt_Never(a) == FALSE
\* A plausible slip: range(1, MAX_RETRIES + 2)
LastAttempt_OneMore(a) == a >= MAX_RETRIES + 1
\* the retry loops run attempt = 1 .. MAX_RETRIES
LastAttempt(a) == a >= MAX_RETRIES
\* A plausible slip: the feed is requested whatever the primary yields.
NeedsFallback_Always(p) == TRUE

\* line 229: `if len(posts) < MAX_POSTS`
NeedsFallback(p) == Len(p) < MAX_POSTS
\* A plausible slip: the cache test is lost and every image is fetched again.
Exists_Never(filename) == FALSE
\* line 251: os.path.exists(img_path)
Exists(filename) == filename \in cache
\* A plausible slip: the test of the suffix is missing.
StaleFiles_AnySuffix(listing, current_shortcodes) ==
    LET current_files == {FileName(sc) : sc \in Elems(current_shortcodes)}
    IN {f \in listing : f \notin current_files}
\* A plausible slip: file names are compared with shortcodes, without ".jpg".
StaleFiles_NoSuffix(listing, current_shortcodes) ==
    LET current_files == {<<sc>> : sc \in Elems(current_shortcodes)}
    IN {f \in listing : EndsWithJpg(f) /\ f \notin current_files}
\* lines 195-197: the files cleanup_old_images removes
StaleFiles(listing, current_shortcodes) ==
    LET current_files == {FileName(sc) : sc \in Elems(current_shortcodes)}
    IN {f \in listing : EndsWithJpg(f) /\ f \notin current_files}
\* line 245: posts[:MAX_POSTS]
Selected == Take(posts, MAX_POSTS)

\* ------------------------------------------------------------ initial states
EdgeLists ==
    { <<>>,
      <<Node(1, 1)>>,
      <<Node(1, 1), Node(1, 1)>>,
      <<Node(0, 1), Node(1, 1), Node(3, 0), Node(2, 2)>>,
      NodesUpTo(9),
      NodesUpTo(10),
      [NodesUpTo(10) EXCEPT ![2] = Node(0, 2)] }
ItemLists ==
    { <<>>,
      <<Item(2, <<2>>)>>,
      <<Item(1, <<1>>), Item(3, <<>>), Item(0, <<1>>), Item(1, <<1, 7>>)>>,
      ItemsUpTo(10) }
Remotes == [edges : EdgeLists, items : ItemLists]

\* An identifier that no profile of the model names.
StaleId == MAX_POSTS + 2
OtherFiles == {<<StaleId, ".jpg">>, <<StaleId, ".txt">>}
InitCaches ==
    { {FileName(sc) : sc \in S} \cup X :
        S \in {{}, {2}, 1..6, 1..7, 1..9}, X \in {{}, OtherFiles} }
\* The manifest an earlier run left with this cache: none in an empty
\* directory, else one entry per cached image.
RECURSIVE EntriesOf(_)
EntriesOf(ids) ==
    IF ids = {} THEN <<>>
    ELSE LET sc == CHOOSE x \in ids : \A y \in ids : x >= y
         IN Append(EntriesOf(ids \ {sc}), ManifestEntry(Post(sc, sc)))

PrimaryIds(r) == {p.shortcode : p \in Elems(get_posts_from_profile(r.edges))}
FeedIds(r) == {p.shortcode : p \in Elems(ParseFeed(r.items))}
RemoteIds(r) == PrimaryIds(r) \cup FeedIds(r)
\* The two endpoints describe the same profile; the feed, when it answers
\* with posts, differs from the embedded edges in at most MaxNew posts.
SameProfile(r) ==
    FeedIds(r) # {} =>
        /\ Cardinality(PrimaryIds(r) \ FeedIds(r)) <= MaxNew
        /\ Cardinality(FeedIds(r) \ PrimaryIds(r)) <= MaxNew
CachedIds(c) == {f[1] : f \in {g \in c : EndsWithJpg(g)}}
InitManifest(c) ==
    IF CachedIds(c) = {} THEN NoFile ELSE JsonDump(EntriesOf(CachedIds(c)))

NoPrev == [ok |-> FALSE, posts |-> <<>>, full |-> FALSE]

\* api_posts: not assigned (line 231 not reached), None, or a list of posts.
Unassigned == [is |-> "unassigned", list |-> <<>>]
None == [is |-> "None", list |-> <<>>]
List(l) == [is |-> "list", list |-> l]
\* line 232: `if api_posts`
Truthy(v) == v.is = "list" /\ v.list # <<>>

Init ==
    /\ remote \in Remotes
    /\ SameProfile(remote)
    /\ cache \in InitCaches
    /\ Cardinality(RemoteIds(remote) \ CachedIds(cache)) <= MaxNew
    /\ Cardinality(CachedIds(cache) \ RemoteIds(remote)) <= MaxStale
    /\ manifest = InitManifest(cache)
    /\ pc = "start"
    /\ run = 1
    /\ session_id = <<>>
    /\ user_id = 0
    /\ user_data = <<>>
    /\ attempt = 0
    /\ posts = <<>>
    /\ api_posts = Unassigned
    /\ i = 0
    /\ posts_data = <<>>
    /\ shortcodes = <<>>
    /\ stale = {}
    /\ exitCode = -1
    /\ exitReason = "running"
    /\ slept = 0
    /\ cache0 = cache
    /\ manifest0 = manifest
    /\ reqs = 0
    /\ outcome = <<>>
    /\ prev = NoPrev

\* ------------------------------------------------------------ actions
\* The process ends: sys.exit(code), the return of line 281, an uncaught
\* exception (status 1) or a signal.
Exit(code, reason) ==
    /\ pc' = "exit"
    /\ exitCode' = code
    /\ exitReason' = reason

\* lines 204-216: ensure_directories, the credential check, create_session
Start(env, dirOk) ==
    /\ pc = "start"
    /\ slept' = 0
    /\ UNCHANGED <<remote, cache, manifest, run, user_id, user_data, posts, i,
                   posts_data, shortcodes, stale, cache0, manifest0,
                   reqs, outcome, prev, api_posts>>
    /\ IF ~dirOk
          THEN /\ Exit(1, "storage_error")
               /\ UNCHANGED <<session_id, attempt>>
          ELSE /\ session_id' = Strip(EnvGet(env))
               /\ IF MissingCredential(session_id')
                     THEN /\ Exit(1, "no_credential")
                          /\ UNCHANGED attempt
                     ELSE /\ pc' = "resolve"
                          /\ attempt' = 1
                          /\ UNCHANGED <<exitCode, exitReason>>

\* lines 83-107 and 219-223: one iteration of get_user_id's loop; after the
\* last one, the caller's check of user_id
ProfileResponses == {"ok", "no_id", "null_user", "429", "http_error", "transport_error"}
Resolve(resp) ==
    /\ pc = "resolve"
    /\ reqs' = reqs + 1
    /\ UNCHANGED <<remote, cache, manifest, run, session_id, posts, i,
                   posts_data, shortcodes, stale, cache0, manifest0,
                   outcome, prev, api_posts>>
    /\ CASE resp = "ok" ->
              /\ user_id' = 1
              /\ user_data' = remote.edges
              /\ pc' = "extract"
              /\ attempt' = 0
              /\ slept' = 0
              /\ UNCHANGED <<exitCode, exitReason>>
         [] resp = "null_user" ->
              \* `user` is None: user.get raises AttributeError
              /\ Exit(1, "crash_resolve")
              /\ slept' = 0
              /\ UNCHANGED <<user_id, user_data, attempt>>
         [] OTHER ->
              /\ slept' = (CASE resp = "429" -> RETRY_DELAY * attempt
                             [] resp = "no_id" -> 0
                             [] OTHER -> RETRY_DELAY)
              /\ UNCHANGED <<user_id, user_data>>
              /\ IF LastAttempt(attempt)
                    THEN /\ Exit(1, "no_profile")
                         /\ UNCHANGED attempt
                    ELSE /\ attempt' = attempt + 1
                         /\ UNCHANGED <<pc, exitCode, exitReason>>

\* lines 226-230
Extract ==
    /\ pc = "extract"
    /\ posts' = get_posts_from_profile(user_data)
    /\ IF NeedsFallback(posts')
          THEN pc' = "feed" /\ attempt' = 1 /\ reqs' = 0
          ELSE pc' = "check_posts" /\ attempt' = 0 /\ UNCHANGED reqs
    /\ slept' = 0
    /\ UNCHANGED <<remote, cache, manifest, run, session_id, user_id, user_data,
                   i, posts_data, shortcodes, stale, exitCode, exitReason,
                   cache0, manifest0, outcome, prev, api_posts>>

\* A plausible slip: the feed's posts are added to the primary ones.
Fallback_Merges(api, primary) ==
    IF Truthy(api) THEN Take(primary \o api.list, MAX_POSTS) ELSE primary

\* lines 232-233: `if api_posts: posts = api_posts`
Fallback(api, primary) == IF Truthy(api) THEN api.list ELSE primary

\* lines 134-171 and 231-233: one iteration of get_posts_via_api's loop
FeedResponses == {"ok", "429", "http_error", "transport_error"}
Feed(resp) ==
    /\ pc = "feed"
    /\ reqs' = reqs + 1
    /\ UNCHANGED <<remote, cache, manifest, run, session_id, user_id, user_data,
                   i, posts_data, shortcodes, stale, exitCode, exitReason,
                   cache0, manifest0, outcome, prev>>
    /\ IF resp = "ok"
          THEN /\ api_posts' = List(ParseFeed(remote.items))
               /\ posts' = Fallback(api_posts', posts)
               /\ pc' = "check_posts"
               /\ attempt' = 0
               /\ slept' = 0
          ELSE /\ slept' = IF resp = "429" THEN RETRY_DELAY * attempt ELSE RETRY_DELAY
               /\ IF LastAttempt(attempt)
                     THEN /\ api_posts' = None
                          /\ posts' = Fallback(api_posts', posts)
                          /\ pc' = "check_posts"
                          /\ attempt' = 0
                     ELSE /\ attempt' = attempt + 1
                          /\ UNCHANGED <<pc, posts, api_posts>>

\* A plausible slip: the cache is reconciled before the posts are checked.
AbortNoPosts_CleansFirst ==
    /\ Exit(1, "no_posts")
    /\ cache' = cache \ StaleFiles(cache, <<>>)
    /\ UNCHANGED <<i, posts_data, shortcodes>>

\* lines 235-237
AbortNoPosts ==
    /\ Exit(1, "no_posts")
    /\ UNCHANGED <<cache, i, posts_data, shortcodes>>

\* lines 235-243
CheckPosts ==
    /\ pc = "check_posts"
    /\ slept' = 0
    /\ UNCHANGED <<remote, manifest, run, session_id, user_id, user_data,
                   attempt, posts, stale, cache0, manifest0, reqs, outcome, prev>>
    /\ api_posts' = Unassigned    \* not read after line 233
    /\ IF posts = <<>>
          THEN AbortNoPosts
          ELSE /\ pc' = "loop"
               /\ i' = 1
               /\ posts_data' = <<>>
               /\ shortcodes' = <<>>
               /\ UNCHANGED <<cache, exitCode, exitReason>>

\* A plausible slip: the entry is put in front of the list.
Keep_Prepends(post, how) ==
    /\ posts_data' = <<ManifestEntry(post)>> \o posts_data
    /\ shortcodes' = Append(shortcodes, post.shortcode)
    /\ outcome' = Append(outcome, how)
    /\ slept' = IF i - 1 < Len(posts) - 1 THEN 1 ELSE 0
    /\ i' = i + 1
    /\ pc' = "loop"
    /\ attempt' = 0

\* lines 259-267: the post is kept; the pause before the next one
Keep(post, how) ==
    /\ posts_data' = Append(posts_data, ManifestEntry(post))
    /\ shortcodes' = Append(shortcodes, post.shortcode)
    /\ outcome' = Append(outcome, how)
    /\ slept' = IF i - 1 < Len(posts) - 1 THEN 1 ELSE 0
    /\ i' = i + 1
    /\ pc' = "loop"
    /\ attempt' = 0

\* A plausible slip: the `continue` of line 255 is missing.
Skip_NoContinue == Keep(Selected[i], "skipped") /\ UNCHANGED <<exitCode, exitReason>>

\* A plausible slip: a download that fails for good ends the run.
Skip_Aborts ==
    /\ Exit(1, "no_cached")
    /\ slept' = 0
    /\ UNCHANGED <<outcome, i, attempt, posts_data, shortcodes>>

\* A plausible slip: the pause is taken after the last attempt as well.
Skip_Sleeps ==
    /\ outcome' = Append(outcome, "skipped")
    /\ i' = i + 1
    /\ pc' = "loop"
    /\ attempt' = 0
    /\ slept' = RETRY_DELAY
    /\ UNCHANGED <<posts_data, shortcodes, exitCode, exitReason>>

\* lines 253-255: the post is left out
Skip ==
    /\ outcome' = Append(outcome, "skipped")
    /\ i' = i + 1
    /\ pc' = "loop"
    /\ attempt' = 0
    /\ slept' = 0
    /\ UNCHANGED <<posts_data, shortcodes, exitCode, exitReason>>

\* lines 245-257: the head of the loop and the cache test
Process ==
    /\ pc = "loop"
    /\ i <= Len(Selected)
    /\ UNCHANGED <<remote, cache, manifest, run, session_id, user_id, user_data,
                   posts, stale, exitCode, exitReason, cache0, manifest0,
                   prev, api_posts>>
    /\ reqs' = 0
    /\ IF ~Exists(FileName(Selected[i].shortcode))
          THEN /\ pc' = "download"
               /\ attempt' = 1
               /\ slept' = 0
               /\ UNCHANGED <<i, posts_data, shortcodes, outcome>>
          ELSE Keep(Selected[i], "cached")

\* lines 174-188: one iteration of download_image's loop
Download(ok) ==
    /\ pc = "download"
    /\ reqs' = reqs + 1
    /\ UNCHANGED <<remote, manifest, run, session_id, user_id, user_data,
                   posts, stale, cache0, manifest0, prev, api_posts>>
    /\ IF ok
          THEN /\ cache' = cache \cup {FileName(Selected[i].shortcode)}
               /\ Keep(Selected[i], "downloaded")
               /\ UNCHANGED <<exitCode, exitReason>>
          ELSE /\ UNCHANGED cache
               /\ IF LastAttempt(attempt)
                     THEN Skip
                     ELSE /\ attempt' = attempt + 1
                          /\ slept' = RETRY_DELAY
                          /\ UNCHANGED <<pc, i, posts_data, shortcodes, outcome,
                                         exitCode, exitReason>>

\* A plausible slip: the manifest is written before posts_data is checked.
AbortEmptyResult_WritesFirst ==
    /\ Exit(1, "no_cached")
    /\ manifest' = JsonDump(posts_data)
    /\ UNCHANGED stale

\* lines 269-271
AbortEmptyResult ==
    /\ Exit(1, "no_cached")
    /\ UNCHANGED <<manifest, stale>>

\* lines 269-274 and 193-195: the check of posts_data; the directory listing
CheckData ==
    /\ pc = "loop"
    /\ i > Len(Selected)
    /\ slept' = 0
    /\ UNCHANGED <<remote, cache, run, session_id, user_id, user_data,
                   attempt, posts, i, posts_data, shortcodes, cache0, manifest0,
                   reqs, outcome, prev, api_posts>>
    /\ IF posts_data = <<>>
          THEN AbortEmptyResult
          ELSE /\ pc' = "cleanup"
               /\ stale' = StaleFiles(cache, shortcodes)
               /\ UNCHANGED <<manifest, exitCode, exitReason>>

\* lines 196-199: os.remove of one stale file, in the order of the listing
Cleanup(f, ok) ==
    /\ pc = "cleanup"
    /\ f \in stale
    /\ stale' = stale \ {f}
    /\ slept' = 0
    /\ UNCHANGED <<remote, manifest, run, session_id, user_id, user_data,
                   attempt, posts, i, posts_data, shortcodes, cache0, manifest0,
                   reqs, outcome, prev, api_posts>>
    /\ IF ok
          THEN /\ cache' = cache \ {f}
               /\ UNCHANGED <<pc, exitCode, exitReason>>
          ELSE \* os.remove raises OSError, which nothing catches
               /\ Exit(1, "crash_cleanup")
               /\ UNCHANGED cache

\* A plausible slip: the manifest is written before the cache is reconciled.
WriteOpen_Early(ok) ==
    /\ pc = "cleanup"
    /\ slept' = 0
    /\ UNCHANGED <<remote, cache, run, session_id, user_id, user_data,
                   attempt, posts, i, posts_data, shortcodes, stale, cache0,
                   manifest0, reqs, outcome, prev, api_posts>>
    /\ IF ok
          THEN /\ manifest' = Truncated
               /\ pc' = "dump"
               /\ UNCHANGED <<exitCode, exitReason>>
          ELSE /\ Exit(1, "crash_write")
               /\ UNCHANGED manifest

\* line 277: open(JSON_FILE, "w") truncates the file
WriteOpen(ok) ==
    /\ pc = "cleanup"
    /\ stale = {}
    /\ slept' = 0
    /\ UNCHANGED <<remote, cache, run, session_id, user_id, user_data,
                   attempt, posts, i, posts_data, shortcodes, stale, cache0,
                   manifest0, reqs, outcome, prev, api_posts>>
    /\ IF ok
          THEN /\ manifest' = Truncated
               /\ pc' = "dump"
               /\ UNCHANGED <<exitCode, exitReason>>
          ELSE /\ Exit(1, "crash_write")
               /\ UNCHANGED manifest

\* lines 278-281: json.dump and the close of the file; k tokens reach the file
WriteDump(k) ==
    /\ pc = "dump"
    /\ k \in 0..(Len(posts_data) + 2)
    /\ manifest' = JsonPrefix(posts_data, k)
    /\ IF k = Len(posts_data) + 2
          THEN Exit(0, "ok")
          ELSE Exit(1, "crash_write")
    /\ slept' = 0
    /\ UNCHANGED <<remote, cache, run, session_id, user_id, user_data,
                   attempt, posts, i, posts_data, shortcodes, stale, cache0,
                   manifest0, reqs, outcome, prev, api_posts>>

\* The process is terminated from outside.
Kill ==
    /\ pc \notin {"start", "exit"}
    /\ Exit(137, "killed")
    /\ slept' = 0
    /\ UNCHANGED <<remote, cache, manifest, run, session_id, user_id, user_data,
                   attempt, posts, i, posts_data, shortcodes, stale, cache0,
                   manifest0, reqs, outcome, prev, api_posts>>

\* The script is started again on the same directory, after a run that ended
\* by itself (the return of line 281 or one of the sys.exit(1)).
NextRun ==
    /\ pc = "exit"
    /\ exitReason \in {"ok", "no_credential", "no_profile", "no_posts", "no_cached"}
    /\ run < MaxRuns
    /\ run' = run + 1
    /\ prev' = IF exitCode = 0
                  THEN [ok |-> TRUE, posts |-> Selected,
                        full |-> "skipped" \notin Elems(outcome)]
                  ELSE NoPrev
    /\ pc' = "start"
    /\ session_id' = <<>>
    /\ user_id' = 0
    /\ user_data' = <<>>
    /\ attempt' = 0
    /\ posts' = <<>>
    /\ api_posts' = Unassigned
    /\ i' = 0
    /\ posts_data' = <<>>
    /\ shortcodes' = <<>>
    /\ stale' = {}
    /\ exitCode' = -1
    /\ exitReason' = "running"
    /\ slept' = 0
    /\ cache0' = cache
    /\ manifest0' = manifest
    /\ reqs' = 0
    /\ outcome' = <<>>
    /\ UNCHANGED <<remote, cache, manifest>>

Next ==
    \/ \E env \in EnvValues, dirOk \in BOOLEAN : Start(env, dirOk)
    \/ \E resp \in ProfileResponses : Resolve(resp)
    \/ Extract
    \/ \E resp \in FeedResponses : Feed(resp)
    \/ CheckPosts
    \/ Process
    \/ \E ok \in BOOLEAN : Download(ok)
    \/ CheckData
    \/ \E f \in stale, ok \in BOOLEAN : Cleanup(f, ok)
    \/ \E ok \in BOOLEAN : WriteOpen(ok)
    \/ \E k \in 0..(MAX_POSTS + 2) : WriteDump(k)
    \/ Kill
    \/ NextRun

Spec == Init /\ [][Next]_vars

\* The steps the script takes by itself. Every call it makes returns: the
\* requests carry timeout=30, the sleeps are finite, the file operations block.
Step ==
    \/ \E env \in EnvValues, dirOk \in BOOLEAN : Start(env, dirOk)
    \/ \E resp \in ProfileResponses : Resolve(resp)
    \/ Extract
    \/ \E resp \in FeedResponses : Feed(resp)
    \/ CheckPosts
    \/ Process
    \/ \E ok \in BOOLEAN : Download(ok)
    \/ CheckData
    \/ \E f \in stale, ok \in BOOLEAN : Cleanup(f, ok)
    \/ \E ok \in BOOLEAN : WriteOpen(ok)
    \/ \E k \in 0..(MAX_POSTS + 2) : WriteDump(k)

\* A started run keeps running: the interpreter executes the next statement.
FairSpec == Spec /\ WF_vars(Step)

TypeOK ==
    /\ pc \in {"start", "resolve", "extract", "feed", "check_posts", "loop",
               "download", "cleanup", "dump", "exit"}
    /\ run \in 1..MaxRuns
    /\ attempt \in 0..MAX_RETRIES
    /\ Len(posts) <= MAX_POSTS

\* ------------------------------------------------------------ properties
Ended == pc = "exit"
\* The fatal conditions of the script: the four sys.exit(1).
FatalReasons == {"no_credential", "no_profile", "no_posts", "no_cached"}
Fatal == Ended /\ exitReason \in FatalReasons
Jpgs(files) == {f \in files : EndsWithJpg(f)}
\* The file a manifest entry points to.
EntryFile(e) == <<e.media_url[2], e.media_url[3]>>
Processed == 1..Len(outcome)
HasFile(j) == FileName(Selected[j].shortcode) \in cache
KeptEntries == {j \in Processed : outcome[j] # "skipped"}
\* A post given up whose identifier comes again later and is kept then.
Recovered(j) ==
    \E k \in Processed :
        /\ k > j
        /\ Selected[k].shortcode = Selected[j].shortcode
        /\ outcome[k] # "skipped"

\* C1: a run that aborts fatally (missing credential, profile not resolved,
\* no post extracted, no post cached) leaves the manifest file as it was
\* when the run started.
C1_FatalKeepsManifest == Fatal => manifest = manifest0

C1_Witness ==
    /\ Fatal
    /\ exitReason = "no_cached"
    /\ manifest0.exists
    /\ reqs = 3

\* C2: a run that aborts fatally leaves the set of cached files as it was when
\* the run started: none deleted, none added.
C2_FatalKeepsCache == Fatal => cache = cache0

C2_Witness ==
    /\ Fatal
    /\ exitReason = "no_posts"
    /\ Jpgs(cache0) # {}

\* C3: after a run that writes the manifest, the .jpg files of the cache are
\* exactly the files the manifest's entries name.
C3_CacheMatchesManifest ==
    (Ended /\ exitReason = "ok") =>
        Jpgs(cache) = {EntryFile(e) : e \in Elems(manifest.entries)}

C3_Witness ==
    /\ Ended /\ exitReason = "ok"
    /\ Jpgs(cache0) \ cache # {}
    /\ cache \ cache0 # {}
    /\ cache \ Jpgs(cache) # {}

\* C4 as stated: after a run that writes the manifest, the manifest has as
\* many entries as there are selected posts whose file is in the cache, and
\* at most 9.
C4_Original ==
    (Ended /\ exitReason = "ok") =>
        /\ Len(manifest.entries) = Cardinality({j \in Processed : HasFile(j)})
        /\ Len(manifest.entries) <= 9

\* C4 as amended: after a run that writes the manifest, the manifest has at
\* most 9 entries, one per selected post that was cached or downloaded when it
\* was processed; this is the number of selected posts whose file is in the
\* cache unless a post that was given up has the identifier of a later post
\* that was kept.
C4_ManifestLength ==
    (Ended /\ exitReason = "ok") =>
        /\ Len(manifest.entries) <= 9
        /\ Len(manifest.entries) = Cardinality(KeptEntries)
        /\ (\A j \in Processed : outcome[j] = "skipped" => ~Recovered(j))
              => Len(manifest.entries) = Cardinality({j \in Processed : HasFile(j)})

C4_Witness ==
    /\ Ended /\ exitReason = "ok"
    /\ \E j \in Processed : outcome[j] = "skipped" /\ Recovered(j)

\* C5 as stated: after a run that wrote the manifest, a second run against
\* the unchanged profile writes the same manifest and issues no download.
C5_Original ==
    (run >= 2 /\ prev.ok /\ Ended /\ exitReason = "ok") =>
        /\ manifest = manifest0
        /\ \A j \in Processed : outcome[j] = "cached"

\* C5 as amended: if the first run ended with exit code 0 and cached every
\* post it selected, a second run against the unchanged profile that selects
\* the same posts issues no download and, when it ends with exit code 0, has
\* written the same manifest.
C5_Idempotent ==
    (/\ run >= 2 /\ prev.ok /\ prev.full
     /\ pc \in {"loop", "download", "cleanup", "dump", "exit"}
     /\ Selected = prev.posts) =>
        /\ pc # "download"
        /\ \A j \in Processed : outcome[j] = "cached"
        /\ (Ended /\ exitReason = "ok") => manifest = manifest0

C5_Witness ==
    /\ run >= 2 /\ prev.ok /\ prev.full
    /\ Selected = prev.posts
    /\ Ended /\ exitReason = "ok"
    /\ manifest = manifest0
    /\ Len(outcome) >= 2

\* C6: the exit code is 0 exactly when a post was cached and the manifest was
\* written, and a run that ends with another exit code has not left a partly
\* written manifest.
C6_ExitContract ==
    Ended =>
        /\ exitCode = 0 <=> (posts_data # <<>> /\ manifest = JsonDump(posts_data)
                               /\ exitReason = "ok")
        /\ (exitCode # 0 /\ exitReason # "killed") =>
              (manifest = manifest0 \/ WellFormed(manifest))

C8_AtomicReplace ==
    \/ manifest = manifest0
    \/ pc \in {"dump", "exit"} /\ manifest = JsonDump(posts_data)

\* C9 as stated: at most 3 requests per download; a post whose 3 attempts all
\* fail is not in the manifest and its file is not in the cache; a post whose
\* download succeeds is cached and in the manifest.
C9_Original ==
    /\ pc = "download" => reqs < 3
    /\ \A j \in Processed :
          /\ outcome[j] = "skipped" =>
                /\ ~HasFile(j)
                /\ ManifestEntry(Selected[j]) \notin Elems(posts_data)
          /\ outcome[j] = "downloaded" =>
                /\ HasFile(j)
                /\ ManifestEntry(Selected[j]) \in Elems(posts_data)

\* C9 as amended: at most 3 requests per download; a post whose download
\* succeeds is cached and gets a manifest entry; a post whose 3 attempts all
\* fail gets none, and its file is not in the cache and no entry names it
\* unless a later post with the same identifier is kept; the run goes on with
\* the remaining posts and aborts only when every post was given up.
C9_RetryCeiling ==
    /\ pc = "download" => (reqs = attempt - 1 /\ reqs < 3)
    /\ reqs <= 3
    /\ Len(posts_data) = Cardinality(KeptEntries)
    /\ \A j \in Processed :
          /\ outcome[j] = "skipped" =>
                /\ (j = Len(outcome) /\ pc = "loop") => reqs = 3
                /\ ~Recovered(j) =>
                      /\ ~HasFile(j)
                      /\ ManifestEntry(Selected[j]) \notin Elems(posts_data)
          /\ outcome[j] = "downloaded" =>
                /\ HasFile(j)
                /\ ManifestEntry(Selected[j]) \in Elems(posts_data)
                /\ (Ended /\ exitReason = "ok") =>
                      ManifestEntry(Selected[j]) \in Elems(manifest.entries)
    /\ exitReason = "no_cached" =>
          /\ Len(outcome) = Len(Selected)
          /\ \A j \in Processed : outcome[j] = "skipped"

C9_Witness ==
    /\ Ended /\ exitReason = "ok"
    /\ \E j \in Processed : outcome[j] = "skipped" /\ ~HasFile(j)
    /\ \E j \in Processed : outcome[j] = "downloaded"
    /\ outcome[1] = "skipped"

\* C10: get_user_id issues at most 3 requests and stops at the first answer
\* that carries an identifier; when all 3 fail the run ends with exit code 1
\* and nothing was extracted, downloaded, removed or written.
C10_ProfileResolution ==
    /\ pc = "resolve" => (reqs = attempt - 1 /\ reqs < 3 /\ user_id = 0)
    /\ pc = "extract" => (reqs \in 1..3 /\ user_id # 0)
    /\ exitReason = "no_profile" =>
          /\ Ended /\ exitCode = 1
          /\ reqs = 3
          /\ user_id = 0
          /\ posts = <<>> /\ outcome = <<>> /\ posts_data = <<>>
          /\ cache = cache0
          /\ manifest = manifest0

C10_Witness ==
    /\ exitReason = "no_profile"
    /\ Jpgs(cache) # {}
    /\ manifest.exists

\* C11: a deletion that fails during cache reconciliation does not end the
\* run: the run in which os.remove failed still writes the manifest and ends
\* with exit code 0.
C11_CleanupErrorRecoverable ==
    exitReason = "crash_cleanup" =>
        /\ exitCode = 0
        /\ manifest = JsonDump(posts_data)

\* C12: both extractions return the first 9 valid entries of the source list,
\* in source order; malformed entries do not count toward the 9.
C12_FirstNineValid ==
    /\ pc = "feed" => posts = Take(ValidNodes(user_data), 9)
    /\ pc = "check_posts" =>
          posts \in {Take(ValidNodes(user_data), 9), Take(ValidItems(remote.items), 9)}

\* What the primary extraction of the run yielded.
Primary == get_posts_from_profile(user_data)

\* C13: the feed is requested exactly when the primary extraction yields fewer
\* than 9 posts; when the feed answers with at least one post the selected
\* posts are exactly the feed's (a replacement, never a merge, even when they
\* are fewer); when it answers with none or fails 3 times the primary posts
\* are kept.
C13_FallbackReplaces ==
    /\ pc = "feed" => (Len(Primary) < 9 /\ posts = Primary /\ reqs < 3)
    /\ pc = "check_posts" =>
          /\ api_posts # Unassigned <=> Len(Primary) < 9
          /\ api_posts # Unassigned => reqs \in 1..3
          /\ api_posts = None => reqs = 3
          /\ api_posts.is = "list" => api_posts.list = ParseFeed(remote.items)
          /\ posts = IF api_posts.is = "list" /\ Len(api_posts.list) >= 1
                        THEN api_posts.list
                        ELSE Primary

C13_Witness ==
    /\ pc = "check_posts"
    /\ api_posts.is = "list"
    /\ Len(api_posts.list) >= 1
    /\ Len(api_posts.list) < Len(Primary)
    /\ posts = api_posts.list

\* The feed answered with no post, or failed 3 times: the primary posts stay.
C13_WitnessKept ==
    /\ pc = "check_posts"
    /\ api_posts = None
    /\ posts = Primary
    /\ posts # <<>>

\* The entries of the first j selected posts that were found in the cache or
\* downloaded when they were processed, in the order of the selection.
RECURSIVE KeptSeq(_)
KeptSeq(j) ==
    IF j = 0 THEN <<>>
    ELSE IF outcome[j] = "skipped" THEN KeptSeq(j - 1)
    ELSE Append(KeptSeq(j - 1),
                [permalink |-> Permalink(Selected[j].shortcode),
                 media_url |-> MediaUrl(Selected[j].shortcode)])

Attempted == {j \in Processed : outcome[j] # "cached"}
\* The file of the j-th selected post was in the cache when it was processed:
\* it was there when the run started, or an earlier post of the same
\* identifier was downloaded.
HadFile(j) ==
    \/ FileName(Selected[j].shortcode) \in cache0
    \/ \E k \in 1..(j - 1) :
          /\ Selected[k].shortcode = Selected[j].shortcode
          /\ outcome[k] = "downloaded"

\* C15: a post whose file is in the cache when it is processed causes no
\* download request and its file stays in the cache; a download is attempted
\* exactly for the selected posts without a file at that time.
C15_CachedNotDownloaded ==
    /\ \A j \in Processed : outcome[j] = "cached" <=> HadFile(j)
    /\ pc = "download" =>
          /\ ~HadFile(i)
          /\ FileName(Selected[i].shortcode) \notin cache
          /\ reqs < 3
    /\ (pc = "loop" /\ outcome # <<>> /\ outcome[Len(outcome)] = "cached") =>
          reqs = 0
    /\ pc \in {"loop", "download"} => cache0 \subseteq cache
    /\ (Ended /\ exitReason = "ok") =>
          Cardinality(Attempted) =
             Cardinality({j \in 1..Len(Selected) : ~HadFile(j)})

\* 9 selected, 7 of them cached: 2 downloads.
C15_Witness ==
    /\ Ended /\ exitReason = "ok"
    /\ Len(Selected) = 9
    /\ Cardinality({j \in 1..9 : FileName(Selected[j].shortcode) \in cache0}) = 7
    /\ Cardinality(Attempted) = 2
    /\ Len(manifest.entries) = 9

\* A download attempt has just failed and another one follows.
BetweenAttempts == pc = "download" /\ attempt > 1
\* The last attempt of a download has just failed.
GaveUp == pc = "loop" /\ outcome # <<>> /\ outcome[Len(outcome)] = "skipped"

\* C16 as the specification states it: the pause between two failed attempts
\* of a download is 10 time units.
C16_Original == BetweenAttempts => slept = 10

\* C16: the pause between two consecutive failed attempts of a download is
\* RETRY_DELAY = 5 time units, and there is no pause after the last failed
\* attempt.
C16_DownloadDelay ==
    /\ BetweenAttempts => slept = 5
    /\ GaveUp => slept = 0

C16_Witness ==
    /\ GaveUp
    /\ reqs = 3
    /\ slept = 0

\* The files of the cache deleted since the run started.
Deleted == cache0 \ cache

\* C17: no file is deleted before every selected post has been processed and
\* at least one of them is cached; the manifest is not touched before every
\* deletion is done.
C17_CleanupOrder ==
    /\ (Deleted # {} \/ stale # {}) =>
          /\ Len(outcome) = Len(Selected)
          /\ i > Len(Selected)
          /\ posts_data # <<>>
          /\ \E j \in Processed : outcome[j] # "skipped" /\ HasFile(j)
    /\ Deleted # {} => pc \in {"cleanup", "dump", "exit"}
    /\ manifest # manifest0 =>
          /\ stale = {}
          /\ StaleFiles(cache, shortcodes) = {}
          /\ pc \in {"dump", "exit"}
    /\ pc = "dump" => stale = {}

\* Reconciliation is done, the manifest is not written yet: the manifest of
\* the previous run names a file that is gone.
C17_Witness ==
    /\ pc = "cleanup"
    /\ stale = {}
    /\ Deleted # {}
    /\ manifest = manifest0
    /\ \E e \in Elems(manifest.entries) : EntryFile(e) \notin cache

\* The three retry loops: get_user_id, get_posts_via_api, download_image.
InRetryLoop == pc \in {"resolve", "feed", "download"}

\* C18: every run ends; it issues at most 3 profile requests, at most 3 feed
\* requests and at most 3 download requests for each selected post, of which
\* there are at most 9, each processed once.
C18_Terminates ==
    /\ [](/\ reqs <= 3
          /\ Len(Selected) <= 9
          /\ Len(outcome) <= Len(Selected)
          /\ pc = "start" => reqs = 0)
    /\ [][/\ (InRetryLoop /\ pc' = pc) => (reqs' = reqs + 1 /\ i' = i)
          /\ pc' = "resolve" => pc \in {"start", "resolve"}
          /\ pc' = "feed" => (pc = "feed" \/ (pc = "extract" /\ reqs' = 0))
          /\ pc' = "download" =>
                (pc = "download" \/ (pc = "loop" /\ reqs' = 0 /\ i' = i))
          /\ (pc = "download" /\ pc' = "loop") =>
                (i' = i + 1 /\ Len(outcome') = i)
          /\ pc \in {"extract", "feed", "check_posts", "loop", "download",
                     "cleanup", "dump"} => pc' # "resolve"
          /\ pc \in {"check_posts", "loop", "download", "cleanup", "dump"} =>
                pc' # "feed"]_vars
    /\ (pc # "exit" ~> pc = "exit")

\* A run with 9 selected posts, one of them given up after its 3 download
\* requests, that ended by itself.
C18_Witness ==
    /\ Ended
    /\ exitReason = "ok"
    /\ Len(Selected) = 9
    /\ "skipped" \in Elems(outcome)

\* The files cache reconciliation may delete: a name that ends in .jpg and
\* whose identifier is not among the posts of the result.
Deletable(files) ==
    {f \in files : EndsWithJpg(f) /\ f[1] \notin Elems(shortcodes)}

\* C19: cache reconciliation deletes only .jpg files whose identifier is not
\* in the current result; the files of the result and the files without the
\* .jpg suffix stay.
C19_CleanupFrame ==
    /\ Deleted \subseteq Deletable(cache0)
    /\ stale \subseteq Deletable(cache)
    /\ \A sc \in Elems(shortcodes) : FileName(sc) \in cache
    /\ \A f \in cache0 : ~EndsWithJpg(f) => f \in cache

C19_Witness ==
    /\ Ended /\ exitReason = "ok"
    /\ Deleted = {<<StaleId, ".jpg">>}
    /\ <<StaleId, ".txt">> \in cache
    /\ Cardinality(Elems(shortcodes)) >= 2

====
